---- MODULE Spec2Model ----
(***************************************************************************)
(* Model of progressrm (src/src/main.rs): lexical path normalisation, the  *)
(* per-process lookup table built from /proc/<pid>/cmdline, the ancestor   *)
(* walk over open descriptor paths, and the scan loop of main with the     *)
(* races against exiting processes.                                        *)
(*                                                                         *)
(* A path is a sequence of one-character strings, as the bytes of a Unix   *)
(* OsStr; "/" is the only separator (POSIX paths have no Prefix component).*)
(***************************************************************************)
EXTENDS Naturals, Sequences, FiniteSets

VARIABLES
    \* -- the run of main --
    pc,           \* position of main: start, pids, cwd, cmdline, fddir, fds, done, error, panic
    nextPid,      \* cursor of the /proc directory listing behind PidIterator
    pid,          \* the pid yielded by PidIterator for the current loop iteration
    alive,        \* whether the process `pid` still exists
    cwd,          \* main's `cwd`
    raw,          \* the content read from /proc/<pid>/cmdline
    cmdline,      \* main's `cmdline`: Vec<PathBuf> of normalised arguments
    lookup_hash,  \* main's `lookup_hash`: HashMap<PathBuf, usize>
    out,          \* the lines printed on stdout so far
    cause,        \* which read made main return Err ("" while none)
    lookups,      \* number of lookup_hash.get calls of the last ancestor walk
    argsLeft,     \* command-line entries the model may still hand out
    fdsLeft,      \* descriptor entries the model may still hand out
    \* -- normalize_lexically applied to an arbitrary path --
    npath, nresult, nagain,
    \* -- the table construction applied to an arbitrary cwd and cmdline --
    tcwd, traw, ttable,
    \* -- the ancestor walk applied to an arbitrary table and path --
    wvec, wfile, wresult

runVars  == <<pc, nextPid, pid, alive, cwd, raw, cmdline, lookup_hash, out,
              cause, lookups, argsLeft, fdsLeft>>
normVars == <<npath, nresult, nagain>>
tableVars == <<tcwd, traw, ttable>>
walkVars == <<wvec, wfile, wresult>>
vars == <<runVars, normVars, tableVars, walkVars>>

----------------------------------------------------------------------------
(* Bounds of the model.                                                    *)

MaxSegs == 5      \* separator-delimited segments of a path given to normalize_lexically
MaxArgs == 3      \* entries of a command line given to the table construction
MaxKeys == 2      \* entries of an argument vector given to the ancestor walk
MaxPids == 2      \* entries of /proc examined by one run
MaxRunArgs == 3   \* command-line entries read over one run
MaxFds == 2       \* descriptor entries read over one run

----------------------------------------------------------------------------
(* Generic helpers.                                                        *)

\* All sequences over S of length at most n.
SeqsUpTo(S, n) == UNION {[1..k -> S] : k \in 0..n}

IsPrefix(s, t) == Len(s) <= Len(t) /\ SubSeq(t, 1, Len(s)) = s

StartsWith(s, pre) == IsPrefix(pre, s)

\* str::contains
Contains(s, pat) ==
    \E i \in 1..(Len(s) + 1) :
        i + Len(pat) - 1 <= Len(s) /\ SubSeq(s, i, i + Len(pat) - 1) = pat

----------------------------------------------------------------------------
(* std::path on Unix, as used by the program.                              *)

NoComp  == [kind |-> "None", name |-> <<>>]
RootDir == [kind |-> "RootDir", name |-> <<"/">>]
CurDir  == [kind |-> "CurDir", name |-> <<".">>]
ParentDir == [kind |-> "ParentDir", name |-> <<".", ".">>]
Normal(n) == [kind |-> "Normal", name |-> n]

HasRoot(s) == Len(s) > 0 /\ s[1] = "/"

\* Components::include_cur_dir: a leading "." counts only when the path is
\* "." or starts with "./".
IncludeCurDir(s) ==
    /\ ~HasRoot(s)
    /\ Len(s) > 0
    /\ s[1] = "."
    /\ (Len(s) = 1 \/ s[2] = "/")

LenBeforeBody(s) == IF HasRoot(s) \/ IncludeCurDir(s) THEN 1 ELSE 0

\* Components::parse_single_component
ParseSingleComponent(c) ==
    IF c = <<>> \/ c = <<".">> THEN NoComp
    ELSE IF c = <<".", ".">> THEN ParentDir
    ELSE Normal(c)

HasSep(s) == \E i \in 1..Len(s) : s[i] = "/"
FirstSep(s) == CHOOSE i \in 1..Len(s) : s[i] = "/" /\ \A j \in 1..(i - 1) : s[j] # "/"
LastSep(s)  == CHOOSE i \in 1..Len(s) : s[i] = "/" /\ \A j \in (i + 1)..Len(s) : s[j] # "/"

\* The separator-delimited segments of a byte string, empty ones included.
RECURSIVE Segments(_)
Segments(s) ==
    IF ~HasSep(s) THEN <<s>>
    ELSE <<SubSeq(s, 1, FirstSep(s) - 1)>> \o Segments(SubSeq(s, FirstSep(s) + 1, Len(s)))

RECURSIVE ParseBody(_)
ParseBody(segs) ==
    IF segs = <<>> THEN <<>>
    ELSE LET c == ParseSingleComponent(Head(segs))
         IN  (IF c.kind = "None" THEN <<>> ELSE <<c>>) \o ParseBody(Tail(segs))

\* Path::components, iterated from the front to the end.
Components(s) ==
    (IF HasRoot(s) THEN <<RootDir>> ELSE IF IncludeCurDir(s) THEN <<CurDir>> ELSE <<>>)
    \o ParseBody(Segments(SubSeq(s, LenBeforeBody(s) + 1, Len(s))))

\* impl PartialEq for Path: equality (and hashing) is by components.
PathEq(a, b) == Components(a) = Components(b)

\* Components::parse_next_component_back
ParseNextComponentBack(s) ==
    LET body == SubSeq(s, LenBeforeBody(s) + 1, Len(s))
        comp == IF HasSep(body) THEN SubSeq(body, LastSep(body) + 1, Len(body)) ELSE body
        extra == IF HasSep(body) THEN 1 ELSE 0
    IN  [size |-> Len(comp) + extra, comp |-> ParseSingleComponent(comp)]

\* Components::trim_right
RECURSIVE TrimRight(_)
TrimRight(s) ==
    IF Len(s) > LenBeforeBody(s) /\ ParseNextComponentBack(s).comp.kind = "None"
    THEN TrimRight(SubSeq(s, 1, Len(s) - ParseNextComponentBack(s).size))
    ELSE s

\* A Components iterator that is only consumed from the back: the bytes not
\* yet consumed and the `back` state.
NewComponents(s) == [path |-> s, back |-> "Body"]

\* Components::next_back: the component yielded (NoComp for None) and the
\* iterator afterwards.
RECURSIVE NextBack(_)
NextBack(c) ==
    IF c.back = "Body" THEN
        IF Len(c.path) > LenBeforeBody(c.path)
        THEN LET bc == ParseNextComponentBack(c.path)
                 rest == [c EXCEPT !.path = SubSeq(c.path, 1, Len(c.path) - bc.size)]
             IN  IF bc.comp.kind # "None"
                 THEN [comp |-> bc.comp, iter |-> rest]
                 ELSE NextBack(rest)
        ELSE NextBack([c EXCEPT !.back = "StartDir"])
    ELSE IF c.back = "StartDir" THEN
        IF HasRoot(c.path)
        THEN [comp |-> RootDir,
              iter |-> [path |-> SubSeq(c.path, 1, Len(c.path) - 1), back |-> "Prefix"]]
        ELSE IF IncludeCurDir(c.path)
        THEN [comp |-> CurDir,
              iter |-> [path |-> SubSeq(c.path, 1, Len(c.path) - 1), back |-> "Prefix"]]
        ELSE NextBack([c EXCEPT !.back = "Prefix"])
    ELSE [comp |-> NoComp, iter |-> [c EXCEPT !.back = "Done"]]

\* Components::as_path (the front of the iterator is untouched).
AsPath(c) == IF c.back = "Body" THEN TrimRight(c.path) ELSE c.path

\* PathBuf::push
Push(buf, path) ==
    IF HasRoot(path) THEN path
    ELSE IF buf # <<>> /\ buf[Len(buf)] # "/" THEN buf \o <<"/">> \o path
    ELSE buf \o path

\* PathBuf::pop: truncate to Path::parent, when there is one.
Pop(buf) ==
    LET nb == NextBack(NewComponents(buf))
    IN  IF nb.comp.kind \in {"Normal", "CurDir", "ParentDir"}
        THEN SubSeq(buf, 1, Len(AsPath(nb.iter)))
        ELSE buf

\* Path::join
Join(base, path) == Push(base, path)

----------------------------------------------------------------------------
(* normalize_lexically                                                     *)

Ok(p) == [kind |-> "Ok", path |-> p]
NormalizeError == [kind |-> "Err", path |-> <<>>]
Unreachable == [kind |-> "Unreachable", path |-> <<>>]

\* `..` at the root boundary is dropped instead of being an error.
RECURSIVE NormalizeLoopClamps(_, _, _)
NormalizeLoopClamps(lexical, root, iter) ==
    IF iter = <<>> THEN Ok(lexical)
    ELSE LET component == Head(iter)
         IN  CASE component.kind = "RootDir" -> Unreachable
               [] component.kind = "CurDir" -> NormalizeLoopClamps(lexical, root, Tail(iter))
               [] component.kind = "ParentDir" ->
                    IF Len(lexical) = root
                    THEN NormalizeLoopClamps(lexical, root, Tail(iter))
                    ELSE NormalizeLoopClamps(Pop(lexical), root, Tail(iter))
               [] component.kind = "Normal" ->
                    NormalizeLoopClamps(Push(lexical, component.name), root, Tail(iter))

\* `..` below the root boundary is appended instead of popping.
RECURSIVE NormalizeLoopKeepsParent(_, _, _)
NormalizeLoopKeepsParent(lexical, root, iter) ==
    IF iter = <<>> THEN Ok(lexical)
    ELSE LET component == Head(iter)
         IN  CASE component.kind = "RootDir" -> Unreachable
               [] component.kind = "CurDir" -> NormalizeLoopKeepsParent(lexical, root, Tail(iter))
               [] component.kind = "ParentDir" ->
                    IF Len(lexical) = root
                    THEN NormalizeError
                    ELSE NormalizeLoopKeepsParent(Push(lexical, component.name), root, Tail(iter))
               [] component.kind = "Normal" ->
                    NormalizeLoopKeepsParent(Push(lexical, component.name), root, Tail(iter))

\* The `for component in iter` loop.
RECURSIVE NormalizeLoop(_, _, _)
NormalizeLoop(lexical, root, iter) ==
    IF iter = <<>> THEN Ok(lexical)
    ELSE LET component == Head(iter)
         IN  CASE component.kind = "RootDir" -> Unreachable
               [] component.kind = "CurDir" -> NormalizeLoop(lexical, root, Tail(iter))
               [] component.kind = "ParentDir" ->
                    IF Len(lexical) = root
                    THEN NormalizeError
                    ELSE NormalizeLoop(Pop(lexical), root, Tail(iter))
               [] component.kind = "Normal" ->
                    NormalizeLoop(Push(lexical, component.name), root, Tail(iter))

\* A first Normal component is consumed by the root match (next for peek).
NormalizeLexicallySkipsFirst(p) ==
    LET iter == Components(p)
    IN  IF iter = <<>> THEN Ok(<<>>)
        ELSE IF Head(iter).kind = "ParentDir" THEN NormalizeError
        ELSE IF Head(iter).kind \in {"RootDir", "CurDir"}
        THEN NormalizeLoop(Push(<<>>, Head(iter).name),
                           Len(Push(<<>>, Head(iter).name)), Tail(iter))
        ELSE NormalizeLoop(<<>>, 0, Tail(iter))

NormalizeLexically(p) ==
    LET iter == Components(p)
    IN  IF iter = <<>> THEN Ok(<<>>)
        ELSE IF Head(iter).kind = "ParentDir" THEN NormalizeError
        ELSE IF Head(iter).kind \in {"RootDir", "CurDir"}
        THEN NormalizeLoop(Push(<<>>, Head(iter).name),
                           Len(Push(<<>>, Head(iter).name)), Tail(iter))
        ELSE NormalizeLoop(<<>>, 0, iter)

----------------------------------------------------------------------------
(* main: the command line and the lookup table (lines 138-148).            *)

Nul == "NUL"

HasNul(s) == \E i \in 1..Len(s) : s[i] = Nul
FirstNul(s) == CHOOSE i \in 1..Len(s) : s[i] = Nul /\ \A j \in 1..(i - 1) : s[j] # Nul

\* str::split('\0')
RECURSIVE SplitNul(_)
SplitNul(s) ==
    IF ~HasNul(s) THEN <<s>>
    ELSE <<SubSeq(s, 1, FirstNul(s) - 1)>> \o SplitNul(SubSeq(s, FirstNul(s) + 1, Len(s)))

\* str::split_terminator('\0'): as split, without a final empty piece.
SplitTerminator(s) ==
    LET parts == SplitNul(s)
    IN  IF parts[Len(parts)] = <<>> THEN SubSeq(parts, 1, Len(parts) - 1) ELSE parts

IsNotFlag(s) == ~StartsWith(s, <<"-", "-">>)

\* The filter keeps nothing that starts with `-`.
ArgsOfDropsDash(contents) ==
    SelectSeq(SplitTerminator(contents), LAMBDA s : ~StartsWith(s, <<"-">>))

\* .split_terminator('\0').filter(|s| !s.starts_with("--"))
ArgsOf(contents) == SelectSeq(SplitTerminator(contents), IsNotFlag)

Panic == [kind |-> "Panic", vec |-> <<>>]

\* An argument that fails normalisation is left out instead of panicking.
BuildCmdlineSkipsFailures(dir, contents) ==
    LET args == ArgsOf(contents)
        res == [i \in 1..Len(args) |-> NormalizeLexically(Join(dir, args[i]))]
        RECURSIVE Keep(_)
        Keep(rs) == IF rs = <<>> THEN <<>>
                    ELSE (IF Head(rs).kind = "Ok" THEN <<Head(rs).path>> ELSE <<>>)
                         \o Keep(Tail(rs))
    IN  [kind |-> "Ok", vec |-> Keep(res)]

\* .map(|s| normalize_lexically(&cwd.join(s)).expect("normalizable path")).collect()
BuildCmdline(dir, contents) ==
    LET args == ArgsOf(contents)
        res == [i \in 1..Len(args) |-> NormalizeLexically(Join(dir, args[i]))]
    IN  IF \E i \in 1..Len(args) : res[i].kind # "Ok"
        THEN Panic
        ELSE [kind |-> "Ok", vec |-> [i \in 1..Len(args) |-> res[i].path]]

\* An entry already present keeps its value.
InsertKeepsFirst(m, k, v) ==
    IF \E k0 \in DOMAIN m : PathEq(k0, k)
    THEN m
    ELSE [x \in DOMAIN m \cup {k} |-> IF x = k THEN v ELSE m[x]]

\* HashMap::insert: an equal key keeps its place and takes the new value.
Insert(m, k, v) ==
    IF \E k0 \in DOMAIN m : PathEq(k0, k)
    THEN [x \in DOMAIN m |-> IF PathEq(x, k) THEN v ELSE m[x]]
    ELSE [x \in DOMAIN m \cup {k} |-> IF x = k THEN v ELSE m[x]]

EmptyMap == [k \in {} |-> 0]

\* cmdline.iter().cloned().enumerate().map(|(i, el)| (el, i)).collect()
RECURSIVE CollectFrom(_, _, _)
CollectFrom(m, vec, i) ==
    IF i > Len(vec) THEN m ELSE CollectFrom(Insert(m, vec[i], i - 1), vec, i + 1)

CollectLookup(vec) == CollectFrom(EmptyMap, vec, 1)

\* HashMap::get
Get(m, p) ==
    IF \E k \in DOMAIN m : PathEq(k, p)
    THEN [found |-> TRUE, i |-> m[CHOOSE k \in DOMAIN m : PathEq(k, p)]]
    ELSE [found |-> FALSE, i |-> 0]

----------------------------------------------------------------------------
(* main: the ancestor walk and the printed lines (lines 150-163).          *)

\* The loop goes on after a hit, so the hit nearest the root is reported.
RECURSIVE WalkLoopNoBreak(_, _, _, _)
WalkLoopNoBreak(lookup, components, n, best) ==
    LET hit == Get(lookup, AsPath(components))
        now == IF hit.found THEN [kind |-> "Hit", i |-> hit.i, lookups |-> n + 1]
               ELSE [best EXCEPT !.lookups = n + 1]
        end == NextBack(components)
    IN  IF end.comp.kind = "None" THEN now
        ELSE WalkLoopNoBreak(lookup, end.iter, n + 1, now)

AncestorWalkNoBreak(lookup, filename) ==
    WalkLoopNoBreak(lookup, NewComponents(filename), 0,
                    [kind |-> "Miss", i |-> 0, lookups |-> 0])

\* The `loop` of main; n counts the lookups made before this iteration.
RECURSIVE WalkLoop(_, _, _)
WalkLoop(lookup, components, n) ==
    LET hit == Get(lookup, AsPath(components))
        end == NextBack(components)
    IN  IF hit.found THEN [kind |-> "Hit", i |-> hit.i, lookups |-> n + 1]
        ELSE IF end.comp.kind = "None" THEN [kind |-> "Miss", i |-> 0, lookups |-> n + 1]
        ELSE WalkLoop(lookup, end.iter, n + 1)

AncestorWalk(lookup, filename) == WalkLoop(lookup, NewComponents(filename), 0)

FdLine(p, filename) == [kind |-> "fd", pid |-> p, path |-> filename]

\* The index is printed counting from one.
ProgressLineOneBased(i, vec) == [kind |-> "progress", i |-> i + 1, n |-> Len(vec)]

\* println!("Progress: {i} / {}", cmdline.len())
ProgressLine(i, vec) == [kind |-> "progress", i |-> i, n |-> Len(vec)]

\* A Progress line is printed at every ancestor found in the table.
RECURSIVE HitsNoBreak(_, _, _)
HitsNoBreak(lookup, components, vec) ==
    LET hit == Get(lookup, AsPath(components))
        end == NextBack(components)
    IN  (IF hit.found THEN <<ProgressLine(hit.i, vec)>> ELSE <<>>)
        \o (IF end.comp.kind = "None" THEN <<>> ELSE HitsNoBreak(lookup, end.iter, vec))

ReportNoBreak(p, filename, vec, lookup) ==
    [lines |-> <<FdLine(p, filename)>> \o HitsNoBreak(lookup, NewComponents(filename), vec),
     lookups |-> AncestorWalk(lookup, filename).lookups]

\* The body of `for filename in FdIterator::new(pid)?`: the lines printed for
\* one descriptor path, and the lookups the walk made.
Report(p, filename, vec, lookup) ==
    LET w == AncestorWalk(lookup, filename)
    IN  [lines |-> <<FdLine(p, filename)>>
                   \o (IF w.kind = "Hit" THEN <<ProgressLine(w.i, vec)>> ELSE <<>>),
         lookups |-> w.lookups]

----------------------------------------------------------------------------
(* Values of the variable groups while another specification runs.          *)

NotYet == [kind |-> "NotYet", path |-> <<>>]

RunIdle ==
    /\ pc = "idle" /\ nextPid = 1 /\ pid = 0 /\ alive = FALSE
    /\ cwd = <<>> /\ raw = <<>> /\ cmdline = <<>> /\ lookup_hash = EmptyMap
    /\ out = <<>> /\ cause = "" /\ lookups = 0 /\ argsLeft = 0 /\ fdsLeft = 0
NormIdle == npath = <<>> /\ nresult = NotYet /\ nagain = NotYet
TableIdle == tcwd = <<>> /\ traw = <<>> /\ ttable = NotYet
WalkIdle == wvec = <<>> /\ wfile = <<>> /\ wresult = NotYet

----------------------------------------------------------------------------
(* normalize_lexically on arbitrary paths.                                  *)

Segs == {<<>>, <<".">>, <<".", ".">>, <<"a">>, <<"b">>}

RECURSIVE JoinSegs(_)
JoinSegs(ss) ==
    IF ss = <<>> THEN <<>>
    ELSE IF Len(ss) = 1 THEN Head(ss)
    ELSE Head(ss) \o <<"/">> \o JoinSegs(Tail(ss))

NormInputs == {JoinSegs(ss) : ss \in SeqsUpTo(Segs, MaxSegs)}

InitNorm ==
    /\ npath \in NormInputs
    /\ nresult = NotYet
    /\ nagain = NotYet
    /\ RunIdle /\ TableIdle /\ WalkIdle

Normalize ==
    /\ nresult.kind = "NotYet"
    /\ nresult' = NormalizeLexically(npath)
    /\ UNCHANGED <<npath, nagain, runVars, tableVars, walkVars>>

Renormalize ==
    /\ nresult.kind = "Ok"
    /\ nagain.kind = "NotYet"
    /\ nagain' = NormalizeLexically(nresult.path)
    /\ UNCHANGED <<npath, nresult, runVars, tableVars, walkVars>>

NextNorm == Normalize \/ Renormalize

SpecNorm == InitNorm /\ [][NextNorm]_vars

\* The components of p after its root or leading `.`.
BodyOf(p) ==
    LET cs == Components(p)
    IN  IF cs # <<>> /\ Head(cs).kind \in {"RootDir", "CurDir"} THEN Tail(cs) ELSE cs

CountKind(cs, k, kind) == Cardinality({i \in 1..k : cs[i].kind = kind})

\* Some `..` of p has no earlier name left to cancel: it would ascend past
\* the root (or past the start of a relative path).
Escapes(p) ==
    \E k \in 1..Len(BodyOf(p)) :
        CountKind(BodyOf(p), k, "ParentDir") > CountKind(BodyOf(p), k, "Normal")

HasSegment(p, seg) == \E i \in 1..Len(Segments(p)) : Segments(p)[i] = seg

\* C2 (as stated): an Ok result has no `.` and no `..` component.
C2_NoDotComponents ==
    nresult.kind = "Ok" =>
        /\ ~HasSegment(nresult.path, <<".">>)
        /\ ~HasSegment(nresult.path, <<".", ".">>)

\* C2 (amended): an Ok result has no `..` component, and no `.` component
\* except a single leading `.` kept from an input whose first component is `.`.
C2_NoDotExceptLeading ==
    nresult.kind = "Ok" =>
        /\ ~HasSegment(nresult.path, <<".", ".">>)
        /\ \A i \in 1..Len(Segments(nresult.path)) :
              Segments(nresult.path)[i] = <<".">> => (i = 1 /\ IncludeCurDir(npath))
        /\ (IncludeCurDir(npath) => Segments(nresult.path)[1] = <<".">>)

C2_Witness ==
    /\ npath = <<".", "/", "a", "/", ".", "/", ".", ".", "/", "b">>
    /\ nresult = Ok(<<".", "/", "b">>)

\* C3: normalize_lexically fails exactly on the inputs in which some `..`
\* would ascend past the root boundary (an un-rooted leading `..` included);
\* on every other input it returns Ok.
C3_FailsExactlyOnEscape ==
    nresult.kind # "NotYet" =>
        /\ nresult.kind \in {"Ok", "Err"}
        /\ (nresult.kind = "Err") = Escapes(npath)

C3_Witness ==
    /\ npath = <<"/", "a", "/", ".", ".", "/", ".", ".", "/", "b">>
    /\ nresult = NormalizeError

\* C4: normalising an Ok result again returns it unchanged.
C4_Idempotent ==
    nagain.kind # "NotYet" => nagain = Ok(nresult.path)

C4_Witness ==
    /\ npath = <<"a", "/", "/", "b", "/", ".", ".", "/", "b">>
    /\ nresult = Ok(<<"a", "/", "b">>)
    /\ nagain = nresult

----------------------------------------------------------------------------
(* The table construction on arbitrary working directories and command     *)
(* lines.                                                                  *)

\* /proc/<pid>/cmdline: every argument followed by a NUL.
RECURSIVE Encode(_)
Encode(args) ==
    IF args = <<>> THEN <<>> ELSE Head(args) \o <<Nul>> \o Encode(Tail(args))

TableCwds == { <<"/", "a", "/", "b">>, <<"/", "a">>, <<"/">> }

TableArgs ==
    { <<"/", "a", "/", "b", "/", "x">>,
      <<"y">>,
      <<"-", "-", "r">>,
      <<".", ".", "/", "z">>,
      <<".", ".", "/", ".", ".", "/", "e">>,
      <<".">>,
      <<".", "/", "y">>,
      <<"-", "f">>,
      <<>> }

InitTable ==
    /\ tcwd \in TableCwds
    /\ traw \in {Encode(args) : args \in SeqsUpTo(TableArgs, MaxArgs)}
    /\ ttable = NotYet
    /\ RunIdle /\ NormIdle /\ WalkIdle

BuildTable ==
    /\ ttable.kind = "NotYet"
    /\ LET b == BuildCmdline(tcwd, traw)
       IN  ttable' = [kind |-> b.kind, cmdline |-> b.vec, lookup |-> CollectLookup(b.vec)]
    /\ UNCHANGED <<tcwd, traw, runVars, normVars, walkVars>>

NextTable == BuildTable

SpecTable == InitTable /\ [][NextTable]_vars

\* The arguments of a cmdline file, cut at each NUL from the left.
RECURSIVE Decode(_, _)
Decode(s, cur) ==
    IF s = <<>> THEN <<>>
    ELSE IF Head(s) = Nul THEN <<cur>> \o Decode(Tail(s), <<>>)
    ELSE Decode(Tail(s), Append(cur, Head(s)))

RECURSIVE WithoutDoubleDash(_)
WithoutDoubleDash(args) ==
    IF args = <<>> THEN <<>>
    ELSE LET a == Head(args)
         IN  (IF Len(a) >= 2 /\ a[1] = "-" /\ a[2] = "-" THEN <<>> ELSE <<a>>)
             \o WithoutDoubleDash(Tail(args))

\* The non-flag arguments of a cmdline file, in their order.
Kept(contents) == WithoutDoubleDash(Decode(contents, <<>>))

\* An absolute argument replaces the directory, a relative one is appended.
Joined(dir, a) == IF Len(a) > 0 /\ a[1] = "/" THEN a ELSE dir \o <<"/">> \o a

AB == <<"/", "a", "/", "b">>
ABX == <<"/", "a", "/", "b", "/", "x">>
ABY == <<"/", "a", "/", "b", "/", "y">>
AZ == <<"/", "a", "/", "z">>

\* C5: the table is built from exactly the non-flag entries of the command
\* line, in order, each joined onto the working directory and normalised;
\* an index is a position in that filtered list and the total is its length.
C5_TableFromNonFlagArgs ==
    ttable.kind = "Ok" =>
        LET kept == Kept(traw)
        IN  /\ Len(ttable.cmdline) = Len(kept)
            /\ \A i \in 1..Len(kept) :
                  /\ Ok(ttable.cmdline[i]) = NormalizeLexically(Joined(tcwd, kept[i]))
                  /\ ttable.cmdline[i] \in DOMAIN ttable.lookup
            /\ \A k \in DOMAIN ttable.lookup :
                  /\ ttable.lookup[k] < Len(kept)
                  /\ ttable.cmdline[ttable.lookup[k] + 1] = k
            /\ (tcwd = AB /\ traw = Encode(<<ABX, <<"y">>, <<"-", "-", "r">>>>)
                  => /\ DOMAIN ttable.lookup = {ABX, ABY}
                     /\ ttable.lookup[ABX] = 0 /\ ttable.lookup[ABY] = 1
                     /\ Len(ttable.cmdline) = 2)
            /\ (tcwd = AB /\ traw = Encode(<< <<".", ".", "/", "z">> >>)
                  => DOMAIN ttable.lookup = {AZ} /\ ttable.lookup[AZ] = 0)

C5_Witness ==
    /\ tcwd = AB
    /\ traw = Encode(<<ABX, <<"y">>, <<"-", "-", "r">>>>)
    /\ ttable.kind = "Ok"
    /\ ttable.cmdline = <<ABX, ABY>>

\* C8: a path that several non-flag arguments normalise to maps to the
\* index of the last of them, and the total counts every one of them.
C8_LastWriteWins ==
    ttable.kind = "Ok" =>
        /\ \A k \in DOMAIN ttable.lookup :
              \A i \in 1..Len(ttable.cmdline) :
                  ttable.cmdline[i] = k => i - 1 <= ttable.lookup[k]
        /\ \A k \in DOMAIN ttable.lookup :
              \E i \in 1..Len(ttable.cmdline) :
                  ttable.cmdline[i] = k /\ ttable.lookup[k] = i - 1
        /\ Len(ttable.cmdline) = Len(Kept(traw))

C8_Witness ==
    /\ tcwd = AB
    /\ traw = Encode(<< <<"y">>, <<"-", "f">>, <<".", "/", "y">> >>)
    /\ ttable.kind = "Ok"
    /\ DOMAIN ttable.lookup = {ABY, <<"/", "a", "/", "b", "/", "-", "f">>}
    /\ ttable.lookup[ABY] = 2
    /\ Len(ttable.cmdline) = 3

----------------------------------------------------------------------------
(* The ancestor walk on arbitrary tables and descriptor paths.             *)

WalkKeys ==
    { <<"/">>, <<"/", "a">>, AB, <<"/", "a", "/", "b", "/", "c">>, <<"/", "d">> }

WalkFiles ==
    { <<"/", "a", "/", "b", "/", "c">>,
      AB,
      <<"/", "a", "/", "/", "b", "/", ".", "/", "c", "/">>,
      <<"/", "a", "b", "/", "c">>,
      <<"/", "d", "/", "e">>,
      <<"/", "e">>,
      <<"/">> }

InitWalk ==
    /\ wvec \in SeqsUpTo(WalkKeys, MaxKeys)
    /\ wfile \in WalkFiles
    /\ wresult = NotYet
    /\ RunIdle /\ NormIdle /\ TableIdle

Walk ==
    /\ wresult.kind = "NotYet"
    /\ wresult' = AncestorWalk(CollectLookup(wvec), wfile)
    /\ UNCHANGED <<wvec, wfile, runVars, normVars, tableVars>>

NextWalk == Walk

SpecWalk == InitWalk /\ [][NextWalk]_vars

\* k is path f itself or one of its ancestors up to and including the root.
IsAncestorOrSelf(k, f) ==
    /\ Components(k) # <<>>
    /\ IsPrefix(Components(k), Components(f))

AncestorKeys(lookup, f) == {k \in DOMAIN lookup : IsAncestorOrSelf(k, f)}

Longest(ks) == CHOOSE k \in ks : \A k2 \in ks : Len(Components(k2)) <= Len(Components(k))

\* C1: the walk reports the index of the longest ancestor-or-self of the
\* descriptor path that is a key of the table (and a miss when there is none).
C1_LongestAncestor ==
    wresult.kind # "NotYet" =>
        LET lookup == CollectLookup(wvec)
            anc == AncestorKeys(lookup, wfile)
        IN  IF anc = {}
            THEN wresult.kind = "Miss"
            ELSE wresult.kind = "Hit" /\ wresult.i = lookup[Longest(anc)]

C1_Witness ==
    /\ wvec = << <<"/", "a">>, AB >>
    /\ wfile = <<"/", "a", "/", "b", "/", "c">>
    /\ wresult.kind = "Hit"
    /\ wresult.i = 1

----------------------------------------------------------------------------
(* The run of main over /proc, with processes that exit during the scan.   *)

\* PidIterator::new("/usr/bin/rm")
ProcessMatch == <<"/", "u", "s", "r", "/", "b", "i", "n", "/", "r", "m">>

Exes ==
    { ProcessMatch,
      ProcessMatch \o <<"d", "i", "r">>,
      <<"/", "b", "i", "n", "/", "s", "h">> }

Cwds == { AB, <<"/", "a">> }

RunArgs ==
    { <<"y">>, <<".">>, <<"-", "-", "r">>, <<".", ".", "/", ".", ".", "/", "e">> }

FdLinks ==
    { <<"/", "a", "/", "b", "/", "y", "/", "f">>,
      <<"/", "e", "/", "p">>,
      <<"p", "i", "p", "e", ":">> }

Init ==
    /\ pc = "start"
    /\ nextPid = 1
    /\ pid = 0
    /\ alive = FALSE
    /\ cwd = <<>>
    /\ raw = <<>>
    /\ cmdline = <<>>
    /\ lookup_hash = EmptyMap
    /\ out = <<>>
    /\ cause = ""
    /\ lookups = 0
    /\ argsLeft = MaxRunArgs
    /\ fdsLeft = MaxFds
    /\ NormIdle /\ TableIdle /\ WalkIdle

others == <<normVars, tableVars, walkVars>>

\* main returns Err out of a `?`.
Fail(why) ==
    /\ pc' = "error"
    /\ cause' = why

\* PidIterator::new: fs::read_dir("/proc") succeeds or fails.
OpenProc ==
    /\ pc = "start"
    /\ \/ pc' = "pids" /\ UNCHANGED cause
       \/ Fail("proc")
    /\ UNCHANGED <<nextPid, pid, alive, cwd, raw, cmdline, lookup_hash, out,
                   lookups, argsLeft, fdsLeft, others>>

\* PidIterator::next, one entry of /proc: the entry is dropped when its exe
\* link cannot be read or does not contain the pattern, and yielded otherwise.
ListEntry ==
    /\ pc = "pids"
    /\ nextPid <= MaxPids
    /\ nextPid' = nextPid + 1
    /\ \/ UNCHANGED <<pc, pid, alive>>
       \/ \E exe \in Exes :
             IF Contains(exe, ProcessMatch)
             THEN pid' = nextPid /\ alive' = TRUE /\ pc' = "cwd"
             ELSE UNCHANGED <<pc, pid, alive>>
    /\ UNCHANGED <<cwd, raw, cmdline, lookup_hash, out, cause, lookups,
                   argsLeft, fdsLeft, others>>

\* PidIterator::next returns None: main returns Ok(()).
EndOfPids ==
    /\ pc = "pids"
    /\ pc' = "done"
    /\ UNCHANGED <<nextPid, pid, alive, cwd, raw, cmdline, lookup_hash, out,
                   cause, lookups, argsLeft, fdsLeft, others>>

\* The process being inspected exits.
ProcExit ==
    /\ pc \in {"cwd", "cmdline", "fddir", "fds"}
    /\ alive
    /\ alive' = FALSE
    /\ UNCHANGED <<pc, nextPid, pid, cwd, raw, cmdline, lookup_hash, out,
                   cause, lookups, argsLeft, fdsLeft, others>>

\* let cwd = fs::read_link(format!("/proc/{pid}/cwd"))?;
ReadCwd ==
    /\ pc = "cwd"
    /\ IF alive
       THEN \E d \in Cwds : cwd' = d /\ pc' = "cmdline" /\ UNCHANGED cause
       ELSE Fail("cwd") /\ UNCHANGED cwd
    /\ UNCHANGED <<nextPid, pid, alive, raw, cmdline, lookup_hash, out,
                   lookups, argsLeft, fdsLeft, others>>

\* let cmdline = fs::read_to_string(...)? ... .collect(); let lookup_hash = ...;
ReadCmdline ==
    /\ pc = "cmdline"
    /\ IF alive
       THEN \E args \in SeqsUpTo(RunArgs, argsLeft) :
               /\ raw' = Encode(args)
               /\ argsLeft' = argsLeft - Len(args)
               /\ LET b == BuildCmdline(cwd, Encode(args))
                  IN  IF b.kind = "Panic"
                      THEN pc' = "panic" /\ UNCHANGED <<cmdline, lookup_hash>>
                      ELSE /\ pc' = "fddir"
                           /\ cmdline' = b.vec
                           /\ lookup_hash' = CollectLookup(b.vec)
               /\ UNCHANGED cause
       ELSE Fail("cmdline") /\ UNCHANGED <<raw, argsLeft, cmdline, lookup_hash>>
    /\ UNCHANGED <<nextPid, pid, alive, cwd, out, lookups, fdsLeft, others>>

\* FdIterator::new(pid)?
OpenFdDir ==
    /\ pc = "fddir"
    /\ IF alive
       THEN pc' = "fds" /\ UNCHANGED cause
       ELSE Fail("fddir")
    /\ UNCHANGED <<nextPid, pid, alive, cwd, raw, cmdline, lookup_hash, out,
                   lookups, argsLeft, fdsLeft, others>>

\* FdIterator::next, one entry of /proc/<pid>/fd, and the loop body of main
\* for the path it yields: an entry whose link cannot be read or does not
\* start with "/" is dropped.
FdEntry ==
    /\ pc = "fds"
    /\ fdsLeft > 0
    /\ fdsLeft' = fdsLeft - 1
    /\ \/ UNCHANGED <<out, lookups>>
       \/ /\ alive
          /\ \E link \in FdLinks :
                IF StartsWith(link, <<"/">>)
                THEN LET r == Report(pid, link, cmdline, lookup_hash)
                     IN  out' = out \o r.lines /\ lookups' = r.lookups
                ELSE UNCHANGED <<out, lookups>>
    /\ UNCHANGED <<pc, nextPid, pid, alive, cwd, raw, cmdline, lookup_hash,
                   cause, argsLeft, others>>

\* FdIterator::next returns None: the iteration of the pid loop ends and its
\* locals are dropped.
EndOfFds ==
    /\ pc = "fds"
    /\ pc' = "pids"
    /\ pid' = 0
    /\ alive' = FALSE
    /\ cwd' = <<>>
    /\ raw' = <<>>
    /\ cmdline' = <<>>
    /\ lookup_hash' = EmptyMap
    /\ lookups' = 0
    /\ UNCHANGED <<nextPid, out, cause, argsLeft, fdsLeft, others>>

Next ==
    \/ OpenProc
    \/ ListEntry
    \/ EndOfPids
    \/ ProcExit
    \/ ReadCwd
    \/ ReadCmdline
    \/ OpenFdDir
    \/ FdEntry
    \/ EndOfFds

Spec == Init /\ [][Next]_vars

----------------------------------------------------------------------------
(* Properties of the run.                                                  *)

\* The lines a step appends to stdout.
Printed == SubSeq(out', Len(out) + 1, Len(out'))

\* C6 (as stated): a listed process that vanishes before its cwd, cmdline or
\* fd directory is read never aborts the run.
C6_VanishedNeverAborts ==
    ~(pc = "error" /\ cause \in {"cwd", "cmdline", "fddir"})

\* Some non-flag argument of the command line would ascend past the root
\* once joined onto the working directory.
SomeArgEscapes(dir, contents) ==
    \E i \in 1..Len(Kept(contents)) : Escapes(Joined(dir, Kept(contents)[i]))

\* C7: when a non-flag argument of a process fails normalisation, the
\* analysis of that process aborts before any of its descriptors is
\* enumerated or any line is printed for it, nothing is printed afterwards,
\* and the lines printed for earlier processes stay as they were.
C7_AbortBeforeDescriptors ==
    [][ /\ (pc = "cmdline" /\ pc' \in {"fddir", "panic"} /\ SomeArgEscapes(cwd, raw'))
            => /\ pc' = "panic"
               /\ out' = out
               /\ \A j \in 1..Len(out') : out'[j].kind = "fd" => out'[j].pid # pid
        /\ (pc = "panic" => out' = out /\ pc' = "panic")
      ]_vars

C7_Witness ==
    /\ pc = "panic"
    /\ pid = 2
    /\ cwd = <<"/", "a">>
    /\ raw = Encode(<< <<".", ".", "/", ".", ".", "/", "e">> >>)
    /\ Len(out) = 2
    /\ out[1].pid = 1

\* C9: for every descriptor path yielded, exactly one `<pid>: <path>` line
\* is printed first, the walk makes at most (components + 1) lookups, and a
\* Progress line follows immediately, once, exactly when the path or one of
\* its ancestors up to the root is a key of the table; no error is raised.
C9_LinesPerDescriptor ==
    [][ out' # out =>
          /\ IsPrefix(out, out')
          /\ Len(Printed) \in {1, 2}
          /\ Printed[1].kind = "fd"
          /\ Printed[1].pid = pid
          /\ StartsWith(Printed[1].path, <<"/">>)
          /\ (Len(Printed) = 2) = (AncestorKeys(lookup_hash, Printed[1].path) # {})
          /\ (Len(Printed) = 2 => Printed[2].kind = "progress")
          /\ lookups' >= 1
          /\ lookups' <= Len(Components(Printed[1].path)) + 1
          /\ pc' = "fds"
      ]_vars

C9_Witness ==
    /\ Len(out) = 3
    /\ out[1].kind = "fd"
    /\ out[2].kind = "progress"
    /\ out[3].kind = "fd"
    /\ out[3].pid = out[1].pid
    /\ out[3].path = <<"/", "e", "/", "p">>
    /\ lookups = 4

\* C10: every Progress line `i / N` follows a line of the process being
\* inspected, N is the number of non-flag arguments of that process, 0 <= i < N,
\* and argument i of that process is the path printed or one of its ancestors.
C10_ProgressWithinOwnArgs ==
    [][ out' # out =>
          /\ IsPrefix(out, out')
          /\ \A j \in (Len(out) + 1)..Len(out') :
                out'[j].kind = "progress" =>
                    LET kept == Kept(raw)
                        line == out'[j]
                        own == NormalizeLexically(Joined(cwd, kept[line.i + 1]))
                    IN  /\ j > 1
                        /\ out'[j - 1].kind = "fd"
                        /\ out'[j - 1].pid = pid
                        /\ line.n = Len(kept)
                        /\ line.i < line.n
                        /\ own.kind = "Ok"
                        /\ IsAncestorOrSelf(own.path, out'[j - 1].path)
      ]_vars

C10_Witness ==
    /\ Len(out) = 4
    /\ out[1].kind = "fd" /\ out[1].pid = 1
    /\ out[2] = [kind |-> "progress", i |-> 0, n |-> 1]
    /\ out[3].kind = "fd" /\ out[3].pid = 2
    /\ out[4] = [kind |-> "progress", i |-> 1, n |-> 2]

====
